---- MODULE Spec2Model ----
(***************************************************************************)
(* A model of edgen_server's serving front-end:                            *)
(*   - util/stopping_stream.rs : StoppingStream (the stop-word filter)     *)
(*   - model.rs                : Model (artifact handle, preload)          *)
(*   - openai_shim.rs          : chat_completions (request pipeline)       *)
(* Text is modelled as a sequence of one-character strings.                *)
(***************************************************************************)
EXTENDS Integers, Sequences, FiniteSets, TLC

(***************************************************************************)
(* Bounds of the model.                                                    *)
(***************************************************************************)
\* upstream chunks one filter consumes
MaxChunks == 3
\* characters one filter consumes in total
MaxText == 4
\* characters of all stop words of one filter together
MaxStopText == 3

\* the same three for a filter whose stop words are taken in every order
MaxOrderChunks == 3
MaxOrderText == 3
MaxOrderStopText == 3

\* the same three for a filter polled until its upstream has ended
MaxLiveChunks == 2
MaxLiveText == 2
MaxLiveStopText == 2

\* the same three for a filter whose stop words can extend one another
MaxSplitChunks == 2
MaxSplitText == 2
MaxSplitStopText == 5

\* requests that preload at the same time
MaxRequests == 2

\* progress ticks the observer of one preload call writes
MaxTicks == 2
\* preload calls on one handle
MaxPreloadCalls == 2

\* chunks the chat completion stream of one request yields
MaxEvents == 2
\* characters of all stop phrases of one request together
MaxReqStopText == 1

Alphabet == {"a", "b"}

\* all texts of exactly n characters
TextsOfLen(n) == [1..n -> Alphabet]

\* all texts of lo..hi characters
Texts(lo, hi) == UNION {TextsOfLen(n) : n \in lo..hi}

Range(s) == {s[i] : i \in 1..Len(s)}

RECURSIVE Concat(_)
\* the concatenation of a sequence of texts
Concat(ss) == IF ss = <<>> THEN <<>> ELSE Head(ss) \o Concat(Tail(ss))

\* all sequences of non-empty stop words with at most n characters together
RECURSIVE StopWordLists(_)
StopWordLists(n) ==
    {<<>>} \cup UNION {{<<w>> \o rest : rest \in StopWordLists(n - Len(w))} : w \in Texts(1, n)}

(***************************************************************************)
(* State.                                                                  *)
(***************************************************************************)
VARIABLES
    \* StoppingStream's fields
    stop_words, working_buf, is_fused,
    \* history of one filter: what it pulled from `inner`, what it returned,
    \* what `inner` answered when it was last polled
    consumed, out, ended, endedAt, late, last, polled

filterVars == <<stop_words, working_buf, is_fused, consumed, out, ended, endedAt, late, last,
                polled>>

VARIABLES
    \* the Model handle: kind, name, repo, dir, path, preloaded
    model,
    \* the paths that are regular files on local storage
    files,
    \* where the running preload call stands: "idle" (none running),
    \* "join_progress" (model.rs:207) or "join_download" (model.rs:210)
    pl_pc,
    \* the running call's endpoint and its `download` flag
    ep, download,
    \* the two spawned units of work and what api.get returned
    observer, fetcher, fetched,
    \* the notifications and network accesses of the latest call, in order
    log,
    \* what the latest preload call returned
    ret,
    \* history: calls made, the handle and the files when the latest call
    \* was made, whether some call has returned Ok
    calls, before, filesAtCall, anyOk

modelVars == <<model, files, pl_pc, ep, download, observer, fetcher, fetched, log, ret,
               calls, before, filesAtCall, anyOk>>

VARIABLES
    \* the request pipeline: its state ("NoRequest" when the handle is
    \* driven directly), the server settings, the request, the chunks the
    \* chat completion stream has yielded, the events sent, the response
    pc, settings, req, engine, sse, resp

pipeVars == <<pc, settings, req, engine, sse, resp>>

VARIABLES
    \* the status sink shared by all requests: per endpoint kind, the
    \* downloading flag and the progress last written
    sink,
    \* the fetch unit of each of the concurrent requests: its endpoint, its
    \* `download` flag and where it stands
    units,
    \* history: the writes of the downloading flag, in order, each with the
    \* request that made it and its endpoint
    sinkLog

sinkVars == <<sink, units, sinkLog>>

vars == <<filterVars, modelVars, pipeVars, sinkVars>>

(***************************************************************************)
(* util/stopping_stream.rs                                                 *)
(***************************************************************************)
\* str::starts_with: p is a prefix of s
StartsWith(s, p) == Len(p) <= Len(s) /\ SubSeq(s, 1, Len(p)) = p

\* s has p as a substring
Contains(s, p) == \E k \in 0..(Len(s) - Len(p)) : SubSeq(s, k + 1, k + Len(p)) = p

RECURSIVE ScanStallFirst(_, _, _)
\* a scan that makes the two tests of a word in the other order
ScanStallFirst(buf, words, k) ==
    IF k > Len(words) THEN "emit"
    ELSE IF StartsWith(words[k], buf) THEN "stall"
    ELSE IF StartsWith(buf, words[k]) THEN "stop"
    ELSE ScanStallFirst(buf, words, k + 1)

RECURSIVE ScanFirstWordOnly(_, _, _)
\* a scan that looks at the first stop word alone
ScanFirstWordOnly(buf, words, k) ==
    IF k > Len(words) THEN "emit"
    ELSE IF StartsWith(buf, words[k]) THEN "stop"
    ELSE IF StartsWith(words[k], buf) THEN "stall"
    ELSE "emit"

RECURSIVE ScanNoStall(_, _, _)
\* a scan that withholds nothing: a buffer that is only a prefix of a stop
\* word is emitted
ScanNoStall(buf, words, k) ==
    IF k > Len(words) THEN "emit"
    ELSE IF StartsWith(buf, words[k]) THEN "stop"
    ELSE ScanNoStall(buf, words, k + 1)

\* the 'stop_words loop of poll_next over the words from index k on:
\* "stop" (return None), "stall" (should_emit = false; break) or "emit"
RECURSIVE ScanStopWords(_, _, _)
ScanStopWords(buf, words, k) ==
    IF k > Len(words) THEN "emit"
    ELSE IF StartsWith(buf, words[k]) THEN "stop"
    ELSE IF StartsWith(words[k], buf) THEN "stall"
    ELSE ScanStopWords(buf, words, k + 1)

\* an append that forgets what the buffer held
Overwrite(buf, token) == token

\* this.working_buf.push_str(&token)
PushStr(buf, token) == buf \o token

\* a stop that empties the buffer
StopClears(b) == <<>>

\* `return Poll::Ready(None)` on a stop word: what it leaves in the buffer
StopBuf(b) == b

\* an end of `inner` that hands the buffer out before fusing
UpstreamEndFlushes(buf) ==
    IF buf = <<>>
    THEN [buf |-> buf, toks |-> <<>>, ret |-> <<"None">>, fused |-> TRUE, inner |-> "None"]
    ELSE [buf |-> <<>>, toks |-> <<>>, ret |-> <<"Some", buf>>, fused |-> TRUE, inner |-> "None"]

\* an end of `inner` that is passed on as Pending
UpstreamEndUnsignalled(buf) ==
    [buf |-> buf, toks |-> <<>>, ret |-> <<"Pending">>, fused |-> FALSE, inner |-> "None"]

\* `inner` answers Ready(None): is_fused is set and None is returned, the
\* buffer is left alone
UpstreamEnd(buf) ==
    [buf |-> buf, toks |-> <<>>, ret |-> <<"None">>, fused |-> TRUE, inner |-> "None"]

\* a stream that forgets its buffer when `inner` is not ready
UpstreamPendingClears(buf) ==
    [buf |-> <<>>, toks |-> <<>>, ret |-> <<"Pending">>, fused |-> FALSE, inner |-> "Pending"]

\* `inner` answers Pending: Pending is returned, the buffer is left alone
UpstreamPending(buf) ==
    [buf |-> buf, toks |-> <<>>, ret |-> <<"Pending">>, fused |-> FALSE, inner |-> "Pending"]

\* an emit that hands out only the last character of the buffer
OutBufLast(b) == IF b = <<>> THEN b ELSE <<b[Len(b)]>>

\* `let out_buf = std::mem::take(this.working_buf)`: the chunk an emit of
\* the buffer b returns
OutBuf(b) == b

\* a buffer that an emit leaves as it was
KeepBuf(b) == b

\* std::mem::take(this.working_buf): what the emit of b leaves in the buffer
TakeBuf(b) == <<>>

\* The loop of poll_next started with buffer `buf`, with room for at most n
\* more upstream chunks of at most t characters together: every way the
\* call can return.  toks are the tokens pulled from `inner` by this call,
\* ret what the call returns, fused whether it sets is_fused and inner what
\* `inner` answered to the call's last poll of it.
RECURSIVE PollLoop(_, _, _, _)
PollLoop(words, buf, n, t) ==
    {UpstreamPending(buf), UpstreamEnd(buf)}
    \cup
    (IF n = 0 THEN {}
     ELSE UNION {
        LET b == PushStr(buf, token)
            v == ScanStopWords(b, words, 1)
        IN  CASE v = "stop" ->
                   {[buf |-> StopBuf(b), toks |-> <<token>>, ret |-> <<"None">>, fused |-> FALSE,
                     inner |-> "Some"]}
              [] v = "emit" ->
                   {[buf |-> TakeBuf(b), toks |-> <<token>>, ret |-> <<"Some", OutBuf(b)>>,
                     fused |-> FALSE, inner |-> "Some"]}
              [] OTHER ->
                   {[r EXCEPT !.toks = <<token>> \o r.toks] :
                        r \in PollLoop(words, b, n - 1, t - Len(token))}
        : token \in Texts(0, t)})

RECURSIVE FilterRun(_, _, _)
\* what a consumer collects from the filter, from buffer `buf` on, while
\* `inner` yields `chunks`: the chunks poll_next returns up to its first None
FilterRun(words, buf, chunks) ==
    IF chunks = <<>> THEN <<>>
    ELSE LET b == PushStr(buf, Head(chunks))
             v == ScanStopWords(b, words, 1)
         IN  CASE v = "stop" -> <<>>
               [] v = "emit" -> <<OutBuf(b)>> \o FilterRun(words, TakeBuf(b), Tail(chunks))
               [] OTHER -> FilterRun(words, b, Tail(chunks))

\* StoppingStream::wrap_with_stop_words
WrapWithStopWords(words) ==
    /\ stop_words = words
    /\ working_buf = <<>>
    /\ is_fused = FALSE

\* the history of a filter that has not been polled yet
FreshHistory ==
    /\ consumed = <<>>
    /\ out = <<>>
    /\ ended = FALSE
    /\ endedAt = 0
    /\ late = <<>>
    /\ last = <<"NotPolled">>
    /\ polled = "NotPolled"

\* what one call of poll_next returning r leaves in the history
Record(r) ==
    /\ consumed' = consumed \o r.toks
    /\ last' = r.ret
    /\ polled' = r.inner
    /\ ended' = (ended \/ r.ret[1] = "None")
    /\ endedAt' = IF ~ended /\ r.ret[1] = "None" THEN Len(consumed) + Len(r.toks) ELSE endedAt
    /\ out' = IF ~ended /\ r.ret[1] = "Some" THEN Append(out, r.ret[2]) ELSE out
    /\ late' = IF ended /\ r.ret[1] = "Some" THEN Append(late, r.ret[2]) ELSE late

\* StoppingStream::poll_next on a fused stream: Ready(None), `inner` is not polled
PollFused ==
    /\ is_fused
    /\ Record([toks |-> <<>>, ret |-> <<"None">>, inner |-> polled])
    /\ UNCHANGED <<stop_words, working_buf, is_fused>>
    /\ UNCHANGED <<modelVars, pipeVars, sinkVars>>

\* StoppingStream::poll_next on a stream that is not fused, whose upstream
\* has at most maxChunks chunks of at most maxText characters together
Poll(maxChunks, maxText) ==
    /\ ~is_fused
    /\ \E r \in PollLoop(stop_words, working_buf,
                         maxChunks - Len(consumed), maxText - Len(Concat(consumed))) :
          /\ working_buf' = r.buf
          /\ is_fused' = r.fused
          /\ Record(r)
    /\ UNCHANGED stop_words
    /\ UNCHANGED <<modelVars, pipeVars, sinkVars>>

PollNext == Poll(MaxChunks, MaxText)

PollNextSplit == Poll(MaxSplitChunks, MaxSplitText)

PollNextOrder == Poll(MaxOrderChunks, MaxOrderText)

PollNextLive == Poll(MaxLiveChunks, MaxLiveText)

\* a poll in which `inner` is, in the end, ready: it delivers a chunk or
\* its end
PollDelivers == PollNextLive /\ polled' # "Pending"

(***************************************************************************)
(* model.rs                                                                *)
(***************************************************************************)
ModelKind == {"LLM", "Whisper", "ChatFaker"}

Endpoint == {"ChatCompletions", "AudioTranscriptions", "Embeddings"}

\* the texts of the errors hf_hub reports (e.to_string())
ErrTexts == {"e1", "e2"}

\* what the zero-length range request reports as content length
Sizes == {<<"None">>, <<"Some", 1>>}

\* PathBuf::join
PathJoin(d, n) == <<d, n>>

\* Model::new
ModelNew(k, n, r, d) ==
    [kind |-> k, name |-> n, repo |-> r, dir |-> d, path |-> PathJoin(d, n), preloaded |-> FALSE]

\* the file of the artifact in the repository cache under the handle's dir,
\* which is the path api.get returns
HubPath(m) == <<m.dir, m.repo, "snapshots", m.name>>

\* Path::is_file
IsFile(p) == p \in files

\* an accessor that hands the path out unguarded
FilePathUnguarded(m) == <<"Ok", m.path>>

\* Model::file_path
FilePath(m) == IF m.preloaded THEN <<"Ok", m.path>> ELSE <<"Err", "NotPreloaded">>

\* an identity check that fails only when both are empty
IdentityBothMissing(m) == m.name = <<>> /\ m.repo = <<>>

\* self.name.is_empty() || self.repo.is_empty()
IdentityMissing(m) == m.name = <<>> \/ m.repo = <<>>

\* a cache hit that leaves the handle as it was
CacheHitUnmarked(m) == m

\* self.preloaded = true on the cache-hit path
CacheHitModel(m) == [m EXCEPT !.preloaded = TRUE]

\* a handle marked preloaded before the fetch result is looked at
FetchFailedMarked(m) == [m EXCEPT !.preloaded = TRUE]

\* `self.path = path?` with path an Err: the handle is not touched
FetchFailedModel(m) == m

\* a success that leaves the handle unmarked
FetchedUnmarked(m, p) == [m EXCEPT !.path = p]

\* a success that keeps the path the handle was built with
FetchedKeepsPath(m, p) == [m EXCEPT !.preloaded = TRUE]

\* self.path = path?; self.preloaded = true
FetchedModel(m, p) == [m EXCEPT !.path = p, !.preloaded = TRUE]

\* a fetch unit that reports the end of a download whatever `download` is
ReportsAlways(dl) == TRUE

\* `if download { report_..._of_download(ep).await }`
Reports(dl) == dl

\* Cache::new(dir).model(repo).get(name).is_none()
MustDownload(m) == HubPath(m) \notin files

\* no spawned unit of an earlier call is still running; a further preload
\* call on the handle is modelled from such a state only
Quiescent == observer \in {"none", "finished", "panicked"} /\ fetcher \in {"none", "finished", "panicked"}

\* preload is entered: the history of the call
Enter(e) ==
    /\ pl_pc = "idle"
    /\ Quiescent
    /\ calls < MaxPreloadCalls
    /\ calls' = calls + 1
    /\ before' = model
    /\ filesAtCall' = files
    /\ ep' = e
    /\ fetched' = <<"None">>

\* preload returns r without having spawned anything
ReturnEarly(r) ==
    /\ ret' = r
    /\ anyOk' = (anyOk \/ r = <<"Ok">>)
    /\ pl_pc' = "idle"
    /\ observer' = "none"
    /\ fetcher' = "none"
    /\ download' = FALSE
    /\ log' = <<>>
    /\ UNCHANGED files

\* preload, model.rs:162-165: the file is there
PreloadCacheHit(e) ==
    /\ Enter(e)
    /\ IsFile(model.path)
    /\ model' = CacheHitModel(model)
    /\ ReturnEarly(<<"Ok">>)

\* preload, model.rs:167-169: no name or no repository
PreloadUnknownModel(e) ==
    /\ Enter(e)
    /\ ~IsFile(model.path)
    /\ IdentityMissing(model)
    /\ ReturnEarly(<<"Err", "UnknownModel", model.kind>>)
    /\ UNCHANGED model

\* preload, model.rs:171-174: the hf_hub client cannot be built
PreloadBuildFails(e) ==
    /\ Enter(e)
    /\ ~IsFile(model.path)
    /\ ~IdentityMissing(model)
    /\ \E t \in ErrTexts : ReturnEarly(<<"Err", "API", t>>)
    /\ UNCHANGED model

\* what the zero-length range request of get_size comes back with: a
\* response with a content length, a response without one, or a transport
\* error
ProbeOutcomes == {<<"Ok", size>> : size \in Sizes} \cup {<<"Err">>}

\* Model::get_size on a request that came back with o
GetSize(o) == IF o[1] = "Ok" THEN o[2] ELSE <<"None">>

\* a probe that is made whatever `download` is
ProbedAlways(dl, o) == <<<<"probe", o>>>>

\* the log after `if download { self.get_size(&api).await } else { None }`
\* with o what the request comes back with
Probed(dl, o) == IF dl THEN <<<<"probe", o>>>> ELSE <<>>

\* the size handed to the observer
ProbedSize(dl, o) == IF dl THEN GetSize(o) ELSE <<"None">>

\* a preload that starts no observation
NotObserved(dl, size) == <<>>

\* the log after observe_download(ep, &self.dir, size, download)
Observed(dl, size) == <<<<"observe", size, dl>>>>

\* preload, model.rs:171-188 with Endpoint::Embeddings: observe_download is todo!()
PreloadTodo(e) ==
    /\ Enter(e)
    /\ ~IsFile(model.path)
    /\ ~IdentityMissing(model)
    /\ e = "Embeddings"
    /\ ret' = <<"Panic">>
    /\ pl_pc' = "idle"
    /\ observer' = "none"
    /\ fetcher' = "none"
    /\ download' = MustDownload(model)
    /\ \E o \in ProbeOutcomes : log' = Probed(MustDownload(model), o)
    /\ UNCHANGED <<model, files, anyOk>>

\* preload, model.rs:171-205: the size is probed, the observer is started,
\* the fetch unit is spawned and preload waits for the observer
PreloadSpawn(e) ==
    /\ Enter(e)
    /\ ~IsFile(model.path)
    /\ ~IdentityMissing(model)
    /\ e # "Embeddings"
    /\ download' = MustDownload(model)
    /\ \E o \in ProbeOutcomes :
          log' = Probed(MustDownload(model), o)
                 \o Observed(MustDownload(model), ProbedSize(MustDownload(model), o))
    /\ observer' = "running"
    /\ fetcher' = "start"
    /\ pl_pc' = "join_progress"
    /\ UNCHANGED <<model, files, ret, anyOk>>

\* Model::preload up to its return or its first join
Preload(e) ==
    \/ PreloadCacheHit(e)
    \/ PreloadUnknownModel(e)
    \/ PreloadBuildFails(e)
    \/ PreloadTodo(e)
    \/ PreloadSpawn(e)

\* how many notifications of kind ev the log holds
Count(ev) == Cardinality({i \in 1..Len(log) : log[i][1] = ev})

\* the fetch unit has entered api.get: progress can arrive
FetchBegun == fetcher \notin {"none", "start"}

\* the observer unit writes a progress tick of the download under way
ObserverTick ==
    /\ observer = "running"
    /\ download
    /\ FetchBegun
    /\ Count("tick") < MaxTicks
    /\ log' = Append(log, <<"tick">>)
    /\ UNCHANGED <<model, files, pl_pc, ep, download, observer, fetcher, fetched, ret,
                   calls, before, filesAtCall, anyOk>>
    /\ UNCHANGED <<sinkVars, filterVars, pipeVars>>

\* the observer unit ends: it returns, or it panics or is cancelled
ObserverEnd ==
    /\ observer = "running"
    /\ observer' \in {"finished", "panicked"}
    /\ UNCHANGED <<model, files, pl_pc, ep, download, fetcher, fetched, log, ret,
                   calls, before, filesAtCall, anyOk>>
    /\ UNCHANGED <<sinkVars, filterVars, pipeVars>>

\* the fetch unit, model.rs:192-194
FetchReportStart ==
    /\ fetcher = "start"
    /\ log' = IF Reports(download) THEN Append(log, <<"download_true">>) ELSE log
    /\ fetcher' = "get"
    /\ UNCHANGED <<model, files, pl_pc, ep, download, observer, fetched, ret,
                   calls, before, filesAtCall, anyOk>>
    /\ UNCHANGED <<sinkVars, filterVars, pipeVars>>

\* the fetch unit, model.rs:196-198: api.get answers from the repository
\* cache, or downloads the file, or fails
FetchGet ==
    /\ fetcher = "get"
    /\ \/ /\ ~MustDownload(model)
          /\ fetched' = <<"Ok", HubPath(model)>>
          /\ UNCHANGED <<files, log>>
       \/ /\ MustDownload(model)
          /\ fetched' = <<"Ok", HubPath(model)>>
          /\ files' = files \cup {HubPath(model)}
          /\ log' = Append(log, <<"fetch">>)
       \/ /\ MustDownload(model)
          /\ \E t \in ErrTexts : fetched' = <<"Err", t>>
          /\ log' = Append(log, <<"fetch">>)
          /\ UNCHANGED files
    /\ fetcher' = IF Reports(download) THEN "end_progress" ELSE "finished"
    /\ UNCHANGED <<model, pl_pc, ep, download, observer, ret, calls, before, filesAtCall, anyOk>>
    /\ UNCHANGED <<sinkVars, filterVars, pipeVars>>

\* the fetch unit panics or is cancelled inside api.get
FetchPanic ==
    /\ fetcher = "get"
    /\ fetcher' = "panicked"
    /\ UNCHANGED <<model, files, pl_pc, ep, download, observer, fetched, log, ret,
                   calls, before, filesAtCall, anyOk>>
    /\ UNCHANGED <<sinkVars, filterVars, pipeVars>>

\* report_end_of_download, model.rs:275 or 279
FetchReportEndProgress ==
    /\ fetcher = "end_progress"
    /\ log' = Append(log, <<"progress_100">>)
    /\ fetcher' = "end_flag"
    /\ UNCHANGED <<model, files, pl_pc, ep, download, observer, fetched, ret,
                   calls, before, filesAtCall, anyOk>>
    /\ UNCHANGED <<sinkVars, filterVars, pipeVars>>

\* report_end_of_download, model.rs:276 or 280, and the unit returns
FetchReportEndFlag ==
    /\ fetcher = "end_flag"
    /\ log' = Append(log, <<"download_false">>)
    /\ fetcher' = "finished"
    /\ UNCHANGED <<model, files, pl_pc, ep, download, observer, fetched, ret,
                   calls, before, filesAtCall, anyOk>>
    /\ UNCHANGED <<sinkVars, filterVars, pipeVars>>

\* a first join whose failure is dropped: `let _ = progress_handle.await;`
JoinProgressIgnoresFailure ==
    /\ pl_pc = "join_progress"
    /\ observer \in {"finished", "panicked"}
    /\ pl_pc' = "join_download"
    /\ UNCHANGED <<model, files, ep, download, observer, fetcher, fetched, log, ret,
                   calls, before, filesAtCall, anyOk>>
    /\ UNCHANGED <<sinkVars, filterVars, pipeVars>>

\* preload, model.rs:207-209
JoinProgress ==
    /\ pl_pc = "join_progress"
    /\ \/ /\ observer = "finished"
          /\ pl_pc' = "join_download"
          /\ UNCHANGED ret
       \/ /\ observer = "panicked"
          /\ pl_pc' = "idle"
          /\ ret' = <<"Err", "JoinError">>
    /\ UNCHANGED <<model, files, ep, download, observer, fetcher, fetched, log,
                   calls, before, filesAtCall, anyOk>>
    /\ UNCHANGED <<sinkVars, filterVars, pipeVars>>

\* preload, model.rs:210-217
JoinDownload ==
    /\ pl_pc = "join_download"
    /\ \/ /\ fetcher = "panicked"
          /\ ret' = <<"Err", "JoinError">>
          /\ UNCHANGED <<model, anyOk>>
       \/ /\ fetcher = "finished"
          /\ fetched[1] = "Err"
          /\ ret' = <<"Err", "API", fetched[2]>>
          /\ model' = FetchFailedModel(model)
          /\ UNCHANGED anyOk
       \/ /\ fetcher = "finished"
          /\ fetched[1] = "Ok"
          /\ ret' = <<"Ok">>
          /\ model' = FetchedModel(model, fetched[2])
          /\ anyOk' = TRUE
    /\ pl_pc' = "idle"
    /\ UNCHANGED <<files, ep, download, observer, fetcher, fetched, log,
                   calls, before, filesAtCall>>
    /\ UNCHANGED <<sinkVars, filterVars, pipeVars>>

\* the steps of the units of work a preload call spawns, and its joins
PreloadSteps ==
    \/ ObserverTick
    \/ ObserverEnd
    \/ FetchReportStart
    \/ FetchGet
    \/ FetchPanic
    \/ FetchReportEndProgress
    \/ FetchReportEndFlag
    \/ JoinProgress
    \/ JoinDownload

\* a handle nobody has called preload on
NoCalls ==
    /\ pl_pc = "idle"
    /\ ep = "ChatCompletions"
    /\ download = FALSE
    /\ observer = "none"
    /\ fetcher = "none"
    /\ fetched = <<"None">>
    /\ log = <<>>
    /\ ret = <<"NoCall">>
    /\ calls = 0
    /\ before = model
    /\ filesAtCall = files
    /\ anyOk = FALSE

\* the directory the handles of the model live in
Dir == "d"

\* the artifact names and repository names of the model
Names == {<<>>, <<"m">>}

Repos == {<<>>, <<"r">>}

\* the regular files local storage can hold: never one with an empty name
PossibleFiles ==
    {PathJoin(Dir, <<"m">>)} \cup {<<Dir, r, "snapshots", <<"m">>>> : r \in Repos \ {<<>>}}

\* no request is part of the run
PipeIdle ==
    /\ pc = "NoRequest"
    /\ settings = [name |-> <<>>, repo |-> <<>>]
    /\ req = [stop |-> <<"None">>]
    /\ engine = <<>>
    /\ sse = <<>>
    /\ resp = <<"None">>

\* the endpoint kinds the status sink keeps a downloading flag for
SinkKinds == {"ChatCompletions", "AudioTranscriptions"}

\* the requests that preload at the same time
Requests == 1..MaxRequests

\* no download has been reported to the sink, no concurrent requests are
\* part of the run
SinkIdle ==
    /\ sink = [k \in SinkKinds |-> [downloading |-> FALSE, progress |-> 0]]
    /\ units = [i \in Requests |-> [ep |-> "ChatCompletions", download |-> FALSE, at |-> "none"]]
    /\ sinkLog = <<>>

\* the filter is not part of the run
FilterIdle == WrapWithStopWords(<<>>) /\ FreshHistory

\* no handle is part of the run
ModelIdle ==
    /\ model = ModelNew("LLM", <<>>, <<>>, Dir)
    /\ files = {}
    /\ NoCalls

FilterInit ==
    /\ \E words \in StopWordLists(MaxStopText) : WrapWithStopWords(words)
    /\ FreshHistory
    /\ ModelIdle
    /\ PipeIdle
    /\ SinkIdle

FilterNext == PollFused \/ PollNext

\* a handle as the tests of model.rs build it, on any local storage
ModelInit ==
    /\ \E k \in ModelKind, n \in Names, r \in Repos : model = ModelNew(k, n, r, Dir)
    /\ files \in SUBSET PossibleFiles
    /\ NoCalls
    /\ FilterIdle
    /\ PipeIdle
    /\ SinkIdle

\* preload is called on the handle, as the tests of model.rs call it
CallPreloadCacheHit ==
    \E e \in Endpoint : PreloadCacheHit(e) /\ UNCHANGED <<sinkVars, filterVars, pipeVars>>

CallPreloadUnknownModel ==
    \E e \in Endpoint : PreloadUnknownModel(e) /\ UNCHANGED <<sinkVars, filterVars, pipeVars>>

CallPreloadBuildFails ==
    \E e \in Endpoint : PreloadBuildFails(e) /\ UNCHANGED <<sinkVars, filterVars, pipeVars>>

CallPreloadTodo ==
    \E e \in Endpoint : PreloadTodo(e) /\ UNCHANGED <<sinkVars, filterVars, pipeVars>>

CallPreloadSpawn ==
    \E e \in Endpoint : PreloadSpawn(e) /\ UNCHANGED <<sinkVars, filterVars, pipeVars>>

ModelNext ==
    \/ CallPreloadCacheHit
    \/ CallPreloadUnknownModel
    \/ CallPreloadBuildFails
    \/ CallPreloadTodo
    \/ CallPreloadSpawn
    \/ PreloadSteps

\* one Model handle and the preload calls on it
SpecModel == ModelInit /\ [][ModelNext]_vars

\* one StoppingStream polled by its consumer
SpecFilter == FilterInit /\ [][FilterNext]_vars

SplitInit ==
    /\ \E words \in StopWordLists(MaxSplitStopText) : WrapWithStopWords(words)
    /\ FreshHistory
    /\ ModelIdle
    /\ PipeIdle
    /\ SinkIdle

SplitNext == PollFused \/ PollNextSplit

\* one StoppingStream with longer stop words, polled by its consumer
SpecSplit == SplitInit /\ [][SplitNext]_vars

OrderInit ==
    /\ \E words \in StopWordLists(MaxOrderStopText) : WrapWithStopWords(words)
    /\ FreshHistory
    /\ ModelIdle
    /\ PipeIdle
    /\ SinkIdle

OrderNext == PollFused \/ PollNextOrder

\* one StoppingStream on a short upstream, polled by its consumer
SpecOrder == OrderInit /\ [][OrderNext]_vars

LiveInit ==
    /\ \E words \in StopWordLists(MaxLiveStopText) : WrapWithStopWords(words)
    /\ FreshHistory
    /\ ModelIdle
    /\ PipeIdle
    /\ SinkIdle

LiveNext == PollFused \/ PollNextLive

\* one StoppingStream polled again and again by its consumer, over a finite
\* upstream that does not stay Pending for ever: it goes on delivering its
\* chunks and then its end
SpecLive == LiveInit /\ [][LiveNext]_vars /\ WF_vars(PollDelivers)

(***************************************************************************)
(* model.rs: the fetch units of concurrent requests and the shared sink    *)
(***************************************************************************)
\* status::set_*_download(v) for the endpoint kind k
SetDownloading(s, k, v) == [s EXCEPT ![k].downloading = v]

\* status::set_*_progress(n) for the endpoint kind k
SetProgress(s, k, n) == [s EXCEPT ![k].progress = n]

\* a start of download that is not reported
ReportStartSkipped(s, e) == s

\* report_start_of_download
ReportStartOfDownload(s, e) == SetDownloading(s, e, TRUE)

\* report_end_of_download, its first write
ReportEndProgress(s, e) == SetProgress(s, e, 100)

\* report_end_of_download, its second write
ReportEndFlag(s, e) == SetDownloading(s, e, FALSE)

\* request i has left step `from` of its fetch unit for step `to`
UnitMoves(i, from, to) ==
    /\ units[i].at = from
    /\ units' = [units EXCEPT ![i].at = to]

\* preload of request i spawns its fetch unit, model.rs:190-191
SharedSpawn(i) ==
    /\ UnitMoves(i, "none", "start")
    /\ UNCHANGED <<sink, sinkLog>>
    /\ UNCHANGED <<filterVars, modelVars, pipeVars>>

\* the fetch unit of request i, model.rs:192-194
SharedReportStart(i) ==
    /\ UnitMoves(i, "start", "get")
    /\ IF Reports(units[i].download)
       THEN /\ sink' = ReportStartOfDownload(sink, units[i].ep)
            /\ sinkLog' = Append(sinkLog, <<"download_true", i, units[i].ep>>)
       ELSE UNCHANGED <<sink, sinkLog>>
    /\ UNCHANGED <<filterVars, modelVars, pipeVars>>

\* the fetch unit of request i, model.rs:196-198: api.get returns, with the
\* path or with an error
SharedGet(i) ==
    /\ UnitMoves(i, "get", IF Reports(units[i].download) THEN "end_progress" ELSE "finished")
    /\ UNCHANGED <<sink, sinkLog>>
    /\ UNCHANGED <<filterVars, modelVars, pipeVars>>

\* the fetch unit of request i panics or is cancelled inside api.get
SharedPanic(i) ==
    /\ UnitMoves(i, "get", "panicked")
    /\ UNCHANGED <<sink, sinkLog>>
    /\ UNCHANGED <<filterVars, modelVars, pipeVars>>

\* the fetch unit of request i, report_end_of_download, model.rs:275 or 279
SharedReportEndProgress(i) ==
    /\ UnitMoves(i, "end_progress", "end_flag")
    /\ sink' = ReportEndProgress(sink, units[i].ep)
    /\ UNCHANGED sinkLog
    /\ UNCHANGED <<filterVars, modelVars, pipeVars>>

\* the fetch unit of request i, report_end_of_download, model.rs:276 or
\* 280, and the unit returns
SharedReportEndFlag(i) ==
    /\ UnitMoves(i, "end_flag", "finished")
    /\ sink' = ReportEndFlag(sink, units[i].ep)
    /\ sinkLog' = Append(sinkLog, <<"download_false", i, units[i].ep>>)
    /\ UNCHANGED <<filterVars, modelVars, pipeVars>>

\* some requests have arrived at the same time, each with its own handle;
\* each preload has come to the point where it spawns its fetch unit
SharedInit ==
    /\ sink = [k \in SinkKinds |-> [downloading |-> FALSE, progress |-> 0]]
    /\ units \in [Requests -> [ep : SinkKinds, download : BOOLEAN, at : {"none"}]]
    /\ sinkLog = <<>>
    /\ FilterIdle
    /\ ModelIdle
    /\ PipeIdle

SharedNext ==
    \E i \in Requests :
        \/ SharedSpawn(i)
        \/ SharedReportStart(i)
        \/ SharedGet(i)
        \/ SharedPanic(i)
        \/ SharedReportEndProgress(i)
        \/ SharedReportEndFlag(i)

\* the fetch units of concurrent requests, writing to the one status sink
SpecShared == SharedInit /\ [][SharedNext]_vars

(***************************************************************************)
(* openai_shim.rs                                                          *)
(***************************************************************************)
RECURSIVE TrimStart(_)
\* str::trim_start
TrimStart(s) == IF s # <<>> /\ Head(s) = " " THEN TrimStart(Tail(s)) ELSE s

RECURSIVE TrimEnd(_)
\* str::trim_end
TrimEnd(s) == IF s # <<>> /\ s[Len(s)] = " " THEN TrimEnd(SubSeq(s, 1, Len(s) - 1)) ELSE s

\* str::trim
Trim(s) == TrimEnd(TrimStart(s))

\* CreateChatCompletionRequest::stop, an Option<Either<str, Vec<str>>>
ReqStops ==
    {<<"None">>}
    \cup {<<"Left", w>> : w \in Texts(1, MaxReqStopText)}
    \cup {<<"Right", ws>> : ws \in StopWordLists(MaxReqStopText)}

\* the stop phrases a request's `stop` field names
StopPhrases(stop) ==
    CASE stop[1] = "None" -> <<>>
      [] stop[1] = "Left" -> <<stop[2]>>
      [] OTHER -> stop[2]

\* an event whose content delta is left empty
ChunkEventBlank(chunk) ==
    [content |-> <<>>, finish_reason |-> "None", model |-> "main", object |-> "text_completion"]

\* the ChatCompletionChunk of one chunk, openai_shim.rs:598-612
ChunkEvent(chunk) ==
    [content |-> chunk, finish_reason |-> "None", model |-> "main", object |-> "text_completion"]

\* the content deltas of a sequence of events
Contents(events) == [i \in 1..Len(events) |-> events[i].content]

\* the texts an engine yields: a chunk of a chat completion stream, or a
\* transcript
EngineTexts == {<<>>, <<"a">>, <<"b">>}

\* CreateChatCompletionRequest::stream, an Option<bool>
ReqStreams == {<<"None">>, <<"Some", TRUE>>, <<"Some", FALSE>>}

\* the `model` field a client sends
ReqModels == {<<"m">>, <<"x">>}

\* the request's handler has not built a handle (yet)
NoHandle ==
    [kind |-> "None", name |-> <<>>, repo |-> <<>>, dir |-> "", path |-> <<>>, preloaded |-> FALSE]

\* get_audio_transcriptions_model_dir()
AudioDir == "w"

\* a name test that refuses nothing
NeverEmpty(s) == FALSE

\* String::is_empty
IsEmpty(s) == s = <<>>

\* a handle named as the request asks
RequestedName(s, r) == r.model

\* the name of the request's handle: the configured name of the endpoint,
\* trimmed; the request's model field is not read
ResolvedName(s, r) == Trim(s.name)

\* the repository of the request's handle: the configured one, trimmed
ResolvedRepo(s, r) == Trim(s.repo)

\* a handler that goes on whatever preload returned
PreloadResultDropped(r) == TRUE

\* the `?` after preload: the handler goes on only on Ok
PreloadSucceeded(r) == r = <<"Ok">>

\* a preload error handed to the caller as it is
PreloadErrorPassedOn(e, name) == <<"Err", "Model", e>>

\* map_err(move |_| ChatCompletionError::NoSuchModel { model_name })
ChatPreloadError(e, name) == <<"Err", "NoSuchModel", name>>

\* map_err(move |_| WhisperEndpointError::FileNotFound(model_name))
TranscribePreloadError(e, name) == <<"Err", "FileNotFound", name>>

\* the WhisperEndpointError the `?` of the first preload call turns a
\* ModelError into: a file-not-found condition
WhisperFromModelError(e) == <<"Err", "FileNotFound", e>>

IsChat == req.endpoint = "ChatCompletions"

IsTranscription == req.endpoint = "AudioTranscriptions"

\* chat_completions, openai_shim.rs:552-582: the configured name and
\* repository are read and trimmed, an empty name is refused, the handle
\* is built
ChatResolve ==
    /\ IsChat
    /\ pc = "Received"
    /\ IF IsEmpty(ResolvedName(settings, req))
       THEN /\ pc' = "Failed"
            /\ resp' = <<"Err", "NoSuchModel", ResolvedName(settings, req)>>
            /\ UNCHANGED <<model, before>>
       ELSE /\ pc' = "ModelResolved"
            /\ model' = ModelNew("LLM", ResolvedName(settings, req), ResolvedRepo(settings, req), Dir)
            /\ before' = model'
            /\ UNCHANGED resp
    /\ UNCHANGED <<files, pl_pc, ep, download, observer, fetcher, fetched, log, ret,
                   calls, filesAtCall, anyOk>>
    /\ UNCHANGED <<sinkVars, filterVars, settings, req, engine, sse>>

\* chat_completions, openai_shim.rs:584-586: preload is called
ChatPreload ==
    /\ IsChat
    /\ pc = "ModelResolved"
    /\ Preload("ChatCompletions")
    /\ pc' = "Preloading"
    /\ UNCHANGED <<sinkVars, filterVars, settings, req, engine, sse, resp>>

\* chat_completions, openai_shim.rs:586-589: preload has returned
ChatPreloadReturned ==
    /\ IsChat
    /\ pc = "Preloading"
    /\ pl_pc = "idle"
    /\ IF PreloadSucceeded(ret)
       THEN pc' = "Preloaded" /\ UNCHANGED resp
       ELSE pc' = "Failed" /\ resp' = ChatPreloadError(ret, model.name)
    /\ UNCHANGED <<sinkVars, filterVars, modelVars, settings, req, engine, sse>>

\* chat_completions, openai_shim.rs:591-617: the chat completion stream is
\* asked for with the handle and the context, and is answered as an event
\* stream
ChatInfer ==
    /\ IsChat
    /\ pc = "Preloaded"
    /\ \/ pc' = "Streaming" /\ resp' = <<"Sse">>
       \/ pc' = "Failed" /\ resp' = <<"Err", "Endpoint">>
    /\ UNCHANGED <<sinkVars, filterVars, modelVars, settings, req, engine, sse>>

\* the stream yields a chunk, which openai_shim.rs:595-615 maps to an event
ChatStreamChunk ==
    /\ IsChat
    /\ pc = "Streaming"
    /\ Len(engine) < MaxEvents
    /\ \E chunk \in EngineTexts :
          /\ engine' = Append(engine, chunk)
          /\ sse' = Append(sse, ChunkEvent(chunk))
    /\ UNCHANGED <<sinkVars, filterVars, modelVars, pc, settings, req, resp>>

\* the stream ends, and the event stream with it
ChatStreamEnd ==
    /\ IsChat
    /\ pc = "Streaming"
    /\ pc' = "Completed"
    /\ UNCHANGED <<sinkVars, filterVars, modelVars, settings, req, engine, sse, resp>>

\* create_transcription, openai_shim.rs:681-709: the configured name and
\* repository are read and trimmed, an empty name is refused, the handle
\* is built
TranscribeResolve ==
    /\ IsTranscription
    /\ pc = "Received"
    /\ IF IsEmpty(ResolvedName(settings, req))
       THEN /\ pc' = "Failed"
            /\ resp' = <<"Err", "FileNotFound", ResolvedName(settings, req)>>
            /\ UNCHANGED <<model, before>>
       ELSE /\ pc' = "ModelResolved"
            /\ model' = ModelNew("Whisper", ResolvedName(settings, req),
                                 ResolvedRepo(settings, req), AudioDir)
            /\ before' = model'
            /\ UNCHANGED resp
    /\ UNCHANGED <<files, pl_pc, ep, download, observer, fetcher, fetched, log, ret,
                   calls, filesAtCall, anyOk>>
    /\ UNCHANGED <<sinkVars, filterVars, settings, req, engine, sse>>

\* create_transcription, openai_shim.rs:711: preload is called
TranscribePreload ==
    /\ IsTranscription
    /\ pc = "ModelResolved"
    /\ Preload("AudioTranscriptions")
    /\ pc' = "Preloading"
    /\ UNCHANGED <<sinkVars, filterVars, settings, req, engine, sse, resp>>

\* create_transcription, openai_shim.rs:711: that call has returned
TranscribePreloadReturned ==
    /\ IsTranscription
    /\ pc = "Preloading"
    /\ pl_pc = "idle"
    /\ IF PreloadSucceeded(ret)
       THEN pc' = "PreloadedOnce" /\ UNCHANGED resp
       ELSE pc' = "Failed" /\ resp' = WhisperFromModelError(ret)
    /\ UNCHANGED <<sinkVars, filterVars, modelVars, settings, req, engine, sse>>

\* create_transcription, openai_shim.rs:713-715: preload is called on the
\* same handle once more
TranscribePreloadAgain ==
    /\ IsTranscription
    /\ pc = "PreloadedOnce"
    /\ Preload("AudioTranscriptions")
    /\ pc' = "PreloadingAgain"
    /\ UNCHANGED <<sinkVars, filterVars, settings, req, engine, sse, resp>>

\* create_transcription, openai_shim.rs:715-716: that call has returned
TranscribePreloadAgainReturned ==
    /\ IsTranscription
    /\ pc = "PreloadingAgain"
    /\ pl_pc = "idle"
    /\ IF PreloadSucceeded(ret)
       THEN pc' = "Preloaded" /\ UNCHANGED resp
       ELSE pc' = "Failed" /\ resp' = TranscribePreloadError(ret, model.name)
    /\ UNCHANGED <<sinkVars, filterVars, modelVars, settings, req, engine, sse>>

\* create_transcription, openai_shim.rs:718-727: the speech engine is run
\* on the file with the handle, and its text is the response body
TranscribeInfer ==
    /\ IsTranscription
    /\ pc = "Preloaded"
    /\ \/ pc' = "Completed" /\ \E text \in EngineTexts : resp' = <<"Ok", text>>
       \/ pc' = "Failed" /\ resp' = <<"Err", "Whisper">>
    /\ UNCHANGED <<sinkVars, filterVars, modelVars, settings, req, engine, sse>>

\* the configured names and repositories, as the settings file holds them
SettingNames == {<<>>, <<" ">>, <<"m">>, <<"m", " ">>}

SettingRepos == {<<>>, <<" ", "r">>}

\* the regular files local storage can hold under the transcription directory
AudioPossibleFiles ==
    {PathJoin(AudioDir, <<"m">>)} \cup {<<AudioDir, r, "snapshots", <<"m">>>> : r \in Repos \ {<<>>}}

\* a request has arrived and nothing has been done for it
Arrived ==
    /\ pc = "Received"
    /\ settings \in [name : SettingNames, repo : SettingRepos]
    /\ engine = <<>>
    /\ sse = <<>>
    /\ resp = <<"None">>
    /\ model = NoHandle
    /\ NoCalls
    /\ FilterIdle
    /\ SinkIdle

\* a chat completion request has arrived
ChatInit ==
    /\ req \in [endpoint : {"ChatCompletions"}, model : ReqModels, stop : ReqStops,
                stream : ReqStreams]
    /\ files \in SUBSET PossibleFiles
    /\ Arrived

\* a transcription request has arrived
TranscribeInit ==
    /\ req \in [endpoint : {"AudioTranscriptions"}, model : ReqModels]
    /\ files \in SUBSET AudioPossibleFiles
    /\ Arrived

ChatNext ==
    \/ ChatResolve
    \/ ChatPreload
    \/ PreloadSteps
    \/ ChatPreloadReturned
    \/ ChatInfer
    \/ ChatStreamChunk
    \/ ChatStreamEnd

ServeInit == ChatInit \/ TranscribeInit

ServeNext ==
    \/ ChatResolve
    \/ ChatPreload
    \/ ChatPreloadReturned
    \/ ChatInfer
    \/ ChatStreamChunk
    \/ ChatStreamEnd
    \/ TranscribeResolve
    \/ TranscribePreload
    \/ TranscribePreloadReturned
    \/ TranscribePreloadAgain
    \/ TranscribePreloadAgainReturned
    \/ TranscribeInfer
    \/ PreloadSteps

\* one request to POST /v1/chat/completions
SpecChat == ChatInit /\ [][ChatNext]_vars

\* one request to POST /v1/chat/completions or POST /v1/audio/transcriptions
SpecServe == ServeInit /\ [][ServeNext]_vars

(***************************************************************************)
(* Properties of StoppingStream, stated for SpecFilter.                     *)
(***************************************************************************)

\* C1: the concatenation of all chunks the filter emits contains no
\* configured stop word as a substring.
C1_NoStopWordReachesConsumer ==
    \A k \in 1..Len(stop_words) : ~Contains(Concat(out \o late), stop_words[k])

\* chunk c is neither a prefix of the word w nor starts with it
Unrelated(c, w) == ~StartsWith(c, w) /\ ~StartsWith(w, c)

\* C3: with a single stop word equal to the i-th chunk and no earlier chunk
\* a prefix of it or starting with it, the output is exactly the chunks
\* before the i-th, one for one and in order, and the stream ends at the
\* i-th chunk.
C3_PrefixFamily ==
    \A i \in 1..Len(consumed) :
        ( /\ Len(stop_words) = 1
          /\ consumed[i] = stop_words[1]
          /\ \A j \in 1..(i - 1) : Unrelated(consumed[j], stop_words[1]) )
        => ( /\ ended
             /\ endedAt = i
             /\ out = SubSeq(consumed, 1, i - 1) )

\* C3's case: a single stop word met as the third chunk, two chunks let through
C3_Witness ==
    /\ Len(stop_words) = 1
    /\ Len(consumed) = 3
    /\ consumed[3] = stop_words[1]
    /\ Unrelated(consumed[1], stop_words[1])
    /\ Unrelated(consumed[2], stop_words[1])
    /\ ended
    /\ out = <<consumed[1], consumed[2]>>

\* C4: with several stop words the stream ends at the earliest chunk that
\* is one of them, whatever that word's position in the list, so the output
\* holds nothing beyond the chunks before that chunk.
C4_EarliestStopWordEnds ==
    \A i \in 1..Len(consumed) :
        ( /\ consumed[i] \in Range(stop_words)
          /\ \A j \in 1..(i - 1) : consumed[j] \notin Range(stop_words) )
        => Len(Concat(out \o late)) <= Len(Concat(SubSeq(consumed, 1, i - 1)))

\* C16: once the filter has returned end-of-stream, on a stop word or on
\* the end of upstream, no later poll returns a chunk: a later poll that
\* gets anything from upstream, a chunk or its end, returns end-of-stream,
\* and nothing is added to the output.
C16_NoOutputAfterEnd ==
    [][ended => ( /\ out' = out
                  /\ late' = <<>>
                  /\ \/ last'[1] = "None"
                     \/ last'[1] = "Pending" /\ consumed' = consumed )]_vars

\* C16's case: the stream ended on a stop word, and a later poll pulled a
\* further chunk from upstream and returned end-of-stream again
C16_Witness ==
    /\ ended
    /\ ~is_fused
    /\ endedAt > 0
    /\ Len(consumed) > endedAt
    /\ consumed[Len(consumed)] # <<>>
    /\ last = <<"None">>
    /\ late = <<>>

\* the buffer starts with none of the stop words
NoStopWordConfirmed(b) == \A k \in 1..Len(stop_words) : ~StartsWith(b, stop_words[k])

\* C17: when upstream ends before a stop word is confirmed the filter
\* returns end-of-stream, and the text it was holding back stays in the
\* buffer: what was delivered is what was consumed without the held text.
C17_PendingDiscardedAtUpstreamEnd ==
    (is_fused /\ NoStopWordConfirmed(working_buf))
    => ( /\ ended
         /\ last = <<"None">>
         /\ late = <<>>
         /\ Concat(out) \o working_buf = Concat(consumed) )

\* C17's case: upstream ended while text was held back, after some output
C17_Witness ==
    /\ is_fused
    /\ NoStopWordConfirmed(working_buf)
    /\ working_buf # <<>>
    /\ out # <<>>
    /\ last = <<"None">>

\* the buffer is unrelated to every stop word
NoRelation(b) == \A k \in 1..Len(stop_words) : Unrelated(b, stop_words[k])

\* the chunks one call of poll_next pulls from upstream
Pulled == SubSeq(consumed', Len(consumed) + 1, Len(consumed'))

\* C20: when the buffer, after a chunk is appended, neither starts with a
\* stop word nor is a prefix of one, the call returns the whole buffer (the
\* held text followed by the chunks just pulled) as one chunk and leaves
\* the buffer empty; the output then spells the consumed text exactly.
C20_EmitWholePending ==
    [][(Len(consumed') > Len(consumed) /\ NoRelation(working_buf \o Concat(Pulled)))
       => ( /\ last' = <<"Some", working_buf \o Concat(Pulled)>>
            /\ working_buf' = <<>>
            /\ out' = Append(out, working_buf \o Concat(Pulled))
            /\ Concat(out') = Concat(consumed') )]_vars

\* C20's case: a held chunk and the next one came out as one chunk
C20_Witness ==
    /\ Len(consumed) >= 2
    /\ consumed[Len(consumed) - 1] # <<>>
    /\ consumed[Len(consumed)] # <<>>
    /\ last = <<"Some", consumed[Len(consumed) - 1] \o consumed[Len(consumed)]>>
    /\ working_buf = <<>>
    /\ NoRelation(last[2])

\* the text of the chunks before the i-th
Pre(i) == Concat(SubSeq(consumed, 1, i - 1))

\* the text of chunks i..j
Seg(i, j) == Concat(SubSeq(consumed, i, j))

\* the buffer was empty when chunk i arrived: the output up to some chunk
\* spells the text before chunk i
PendingEmptyBefore(i) == \E m \in 0..Len(out) : Concat(SubSeq(out, 1, m)) = Pre(i)

\* chunks i..j are non-empty and arrived from an empty buffer on
SplitFrom(i, j) ==
    /\ i <= j
    /\ j <= Len(consumed)
    /\ \A n \in i..j : consumed[n] # <<>>
    /\ PendingEmptyBefore(i)

\* b is a strict prefix of some stop word
StrictPrefixOfStopWord(b) ==
    \E k \in 1..Len(stop_words) : StartsWith(stop_words[k], b) /\ stop_words[k] # b

\* a longer stop word that starts with b is listed before every stop word
\* b starts with
HeldByLongerWord(b) ==
    \E k \in 1..Len(stop_words) :
        /\ StartsWith(stop_words[k], b)
        /\ stop_words[k] # b
        /\ \A n \in 1..(k - 1) : ~StartsWith(b, stop_words[n])

\* C19, as claimed: of a stop word that arrives over several chunks from an
\* empty buffer on, every chunk that leaves the buffer a strict prefix of a
\* stop word is withheld, and the chunk that completes the word ends the
\* stream; none of that text is delivered.
C19_Original ==
    /\ \A i \in 1..Len(consumed) :
          (SplitFrom(i, Len(consumed)) /\ StrictPrefixOfStopWord(Seg(i, Len(consumed))))
          => Concat(out \o late) = Pre(i)
    /\ \A i \in 1..Len(consumed), j \in 1..Len(consumed) :
          (i < j /\ SplitFrom(i, j) /\ Seg(i, j) \in Range(stop_words))
          => ( /\ Concat(out \o late) = Pre(i)
               /\ ended
               /\ endedAt <= j )

\* C19, amended: the same, but the chunk that completes the word ends the
\* stream only if no longer stop word starting with it stands earlier in
\* the list; if one does, that chunk is withheld as well and the stream
\* goes on unless upstream ends.  In both cases none of the text from the
\* first chunk of the word on is ever delivered.
C19_SplitStopWordNeverEmitted ==
    /\ \A i \in 1..Len(consumed) :
          (SplitFrom(i, Len(consumed)) /\ StrictPrefixOfStopWord(Seg(i, Len(consumed))))
          => Concat(out \o late) = Pre(i)
    /\ \A i \in 1..Len(consumed), j \in 1..Len(consumed) :
          (i < j /\ SplitFrom(i, j) /\ Seg(i, j) \in Range(stop_words))
          => ( /\ Concat(out \o late) = Pre(i)
               /\ ~HeldByLongerWord(Seg(i, j)) => (ended /\ endedAt <= j)
               /\ (HeldByLongerWord(Seg(i, j)) /\ ended /\ endedAt <= j) => is_fused )

\* C19's case: a stop word of two characters came in two chunks and ended
\* the stream with nothing delivered
C19_Witness ==
    /\ Len(consumed) = 2
    /\ SplitFrom(1, 2)
    /\ Seg(1, 2) \in Range(stop_words)
    /\ ~HeldByLongerWord(Seg(1, 2))
    /\ ended
    /\ endedAt = 2
    /\ out = <<>>

\* C21: once the filter has returned end-of-stream on a stop word, no later
\* poll takes a chunk from upstream: what it has consumed stays what it
\* had consumed when it ended.
C21_NoUpstreamPollAfterStop == ended => Len(consumed) = endedAt

\* C22: while the filter has not ended, between two polls the buffer is
\* empty or a strict prefix of a stop word, and so shorter than some stop
\* word.
C22_PendingIsStrictPrefix ==
    ~ended
    => \/ working_buf = <<>>
       \/ /\ StrictPrefixOfStopWord(working_buf)
          /\ \E k \in 1..Len(stop_words) : Len(working_buf) < Len(stop_words[k])

\* C22's case: two chunks are held, together a strict prefix of a stop word
C22_Witness ==
    /\ ~ended
    /\ Len(consumed) >= 2
    /\ consumed[Len(consumed) - 1] # <<>>
    /\ consumed[Len(consumed)] # <<>>
    /\ working_buf = consumed[Len(consumed) - 1] \o consumed[Len(consumed)]
    /\ StrictPrefixOfStopWord(working_buf)

\* C23: while the filter has not ended, the chunks it has returned followed
\* by the buffer spell the chunks it has consumed; and what it has returned
\* always spells a prefix of what it has consumed.
C23_OutputThenPendingIsInput ==
    /\ ~ended => Concat(out) \o working_buf = Concat(consumed)
    /\ StartsWith(Concat(consumed), Concat(out \o late))

\* C23's case: a chunk was returned and a later one is held
C23_Witness ==
    /\ ~ended
    /\ out # <<>>
    /\ Concat(out) # <<>>
    /\ working_buf # <<>>
    /\ Concat(out) \o working_buf = Concat(consumed)

(***************************************************************************)
(* Properties of chat_completions, stated for SpecChat.                    *)
(***************************************************************************)

\* C2: the events streamed to a chat request carry the output of a stop
\* filter configured with the request's stop phrases run over the chunks
\* of the stream, so nothing is sent once a stop phrase is confirmed.
C2_EventsAreFilterOutput ==
    pc \in {"Streaming", "Completed"}
    => Concat(Contents(sse)) = Concat(FilterRun(StopPhrases(req.stop), <<>>, engine))

(***************************************************************************)
(* Properties of Model, stated for SpecModel.                              *)
(***************************************************************************)
NotPreloaded == <<"Err", "NotPreloaded">>

\* C5: file_path returns Ok(path) if and only if preloaded is true, and on a
\* handle no preload call has succeeded on it returns Err(NotPreloaded).
C5_PathBeforePreloadGuard ==
    /\ model.preloaded => FilePath(model) = <<"Ok", model.path>>
    /\ ~model.preloaded => FilePath(model) = NotPreloaded
    /\ ~anyOk => FilePath(model) = NotPreloaded

\* C5's case: two preload calls have failed and the accessor still refuses
C5_Witness ==
    /\ calls = 2
    /\ pl_pc = "idle"
    /\ ret[1] = "Err"
    /\ ~anyOk
    /\ FilePath(model) = NotPreloaded

\* C6: when the resolved path is a regular file as preload is called, the
\* call returns Ok at once, marks the handle preloaded, keeps its path, and
\* probes, fetches, observes and notifies nothing.
C6_CacheHitIdempotence ==
    (calls > 0 /\ before.path \in filesAtCall)
    => ( /\ pl_pc = "idle"
         /\ ret = <<"Ok">>
         /\ model.preloaded
         /\ model.path = before.path
         /\ log = <<>>
         /\ observer = "none"
         /\ fetcher = "none"
         /\ files = filesAtCall )

\* C6's case: preload was called on a fresh handle whose file is there
C6_Witness ==
    /\ calls > 0
    /\ before.path \in filesAtCall
    /\ ~before.preloaded
    /\ model.preloaded
    /\ ret = <<"Ok">>

\* C7, as claimed: on a handle with an empty name or an empty repository
\* preload fails with UnknownModel and touches no network, whatever local
\* storage holds.
C7_Original ==
    (calls > 0 /\ (before.name = <<>> \/ before.repo = <<>>))
    => ( /\ pl_pc = "idle"
         /\ ret = <<"Err", "UnknownModel", before.kind>>
         /\ log = <<>> )

\* C7, amended: on a handle with an empty name or an empty repository whose
\* resolved path is not a regular file, preload fails with UnknownModel and
\* touches no network.
C7_UnknownModelWhenFileAbsent ==
    (calls > 0 /\ (before.name = <<>> \/ before.repo = <<>>) /\ before.path \notin filesAtCall)
    => ( /\ pl_pc = "idle"
         /\ ret = <<"Err", "UnknownModel", before.kind>>
         /\ log = <<>>
         /\ observer = "none"
         /\ fetcher = "none"
         /\ model = before )

\* C7's case: a named artifact with no repository and no local file
C7_Witness ==
    /\ calls > 0
    /\ before.name # <<>>
    /\ before.repo = <<>>
    /\ before.path \notin filesAtCall
    /\ ret = <<"Err", "UnknownModel", before.kind>>

\* the artifact was not in the repository cache when preload was called
GenuineDownload == HubPath(before) \notin filesAtCall

\* C8: in one preload call the fetch unit issues download-start at most
\* once; once it has returned, with the fetch succeeded or failed, it has
\* issued exactly one progress-100 and one download-end after it; and it
\* issues none of the three when the artifact was in the repository cache.
C8_NoDoubleDownloadEnd ==
    /\ Count("download_true") <= 1
    /\ Count("progress_100") <= 1
    /\ Count("download_false") <= 1
    /\ \A i \in 1..Len(log) :
          log[i][1] \in {"progress_100", "download_false"}
          => \E j \in 1..(i - 1) : log[j][1] = "download_true"
    /\ (fetcher = "finished" /\ GenuineDownload)
       => ( /\ Count("download_true") = 1
            /\ Count("progress_100") = 1
            /\ Count("download_false") = 1 )
    /\ ~GenuineDownload
       => ( /\ Count("download_true") = 0
            /\ Count("progress_100") = 0
            /\ Count("download_false") = 0 )

\* C8's case: a genuine download whose fetch failed, start and end reported
C8_Witness ==
    /\ fetcher = "finished"
    /\ GenuineDownload
    /\ fetched[1] = "Err"
    /\ Count("download_true") = 1
    /\ Count("download_false") = 1

\* C9: every progress tick of the observer comes after the download-start
\* notification and before the download-end notification (progress 100,
\* download flag cleared).
C9_TicksBetweenStartAndEnd ==
    \A i \in 1..Len(log) :
        log[i][1] = "tick"
        => ( /\ \E j \in 1..(i - 1) : log[j][1] = "download_true"
             /\ \A j \in 1..(i - 1) : log[j][1] \notin {"progress_100", "download_false"} )

\* C10, as claimed: when the fetch fails preload returns the API error with
\* the transport error text and leaves the handle as it was.
C10_Original ==
    (calls > 0 /\ pl_pc = "idle" /\ fetched[1] = "Err")
    => ( /\ ret = <<"Err", "API", fetched[2]>>
         /\ model = before
         /\ FilePath(model) = NotPreloaded )

\* C10, amended: when the fetch fails and the observer unit has joined,
\* preload returns the API error with the transport error text and leaves
\* the handle as it was, so file_path still fails with NotPreloaded.
C10_FetchFailureLeavesHandle ==
    (calls > 0 /\ pl_pc = "idle" /\ fetched[1] = "Err" /\ observer = "finished")
    => ( /\ ret = <<"Err", "API", fetched[2]>>
         /\ model = before
         /\ ~model.preloaded
         /\ FilePath(model) = NotPreloaded )

\* C10's case: the fetch failed, both units joined, preload has returned
C10_Witness ==
    /\ pl_pc = "idle"
    /\ fetched[1] = "Err"
    /\ observer = "finished"
    /\ fetcher = "finished"
    /\ ret = <<"Err", "API", fetched[2]>>

\* a spawned unit of the latest preload call is still at work
UnitRunning ==
    \/ observer = "running"
    \/ fetcher \in {"start", "get", "end_progress", "end_flag"}

\* C11: whenever a preload call has returned, with whatever outcome, both
\* units of work it spawned have finished: none is still running.
C11_ReturnsAfterBothUnits ==
    (calls > 0 /\ pl_pc = "idle") => ~UnitRunning

\* what the fetch unit and the observer write to the log
FetchEvents == {"download_true", "fetch", "progress_100", "download_false", "tick"}

\* the place of the observer's start in the log, 0 if it was not started
ObservedAt == IF Count("observe") = 0 THEN 0 ELSE CHOOSE i \in 1..Len(log) : log[i][1] = "observe"

\* C24: in a preload call that spawns the fetch unit, observation has been
\* started once, with the probed-or-unknown size and the download flag,
\* before the unit is spawned: it stands in the log before the
\* download-start notification, the fetch and everything after them.
C24_ObserverBeforeFetch ==
    /\ \A i \in 1..Len(log) :
          log[i][1] \in FetchEvents => (ObservedAt > 0 /\ ObservedAt < i)
    /\ fetcher # "none"
       => ( /\ Count("observe") = 1
            /\ log[ObservedAt][3] = download
            /\ download = GenuineDownload
            /\ log[ObservedAt][2] = (IF download THEN GetSize(log[1][2]) ELSE <<"None">>) )

\* C24's case: a genuine download whose size was probed, observed from
\* before its start
C24_Witness ==
    /\ download
    /\ Len(log) >= 4
    /\ log[1][1] = "probe"
    /\ log[2] = <<"observe", <<"Some", 1>>, TRUE>>
    /\ log[3][1] = "download_true"
    /\ Count("fetch") = 1

\* C25: when the fetch has succeeded and both units have joined, preload
\* has returned Ok, the handle holds the path the fetch returned and is
\* preloaded, and file_path returns that path, not local_dir / name.
C25_FetchSuccessAdoptsPath ==
    (calls > 0 /\ pl_pc = "idle" /\ fetched[1] = "Ok"
               /\ observer = "finished" /\ fetcher = "finished")
    => ( /\ ret = <<"Ok">>
         /\ model.preloaded
         /\ model.path = fetched[2]
         /\ fetched[2] = HubPath(before)
         /\ FilePath(model) = <<"Ok", fetched[2]>>
         /\ FilePath(model) # <<"Ok", PathJoin(model.dir, model.name)>> )

\* C25's case: the artifact was downloaded and the handle points at it
C25_Witness ==
    /\ pl_pc = "idle"
    /\ GenuineDownload
    /\ fetched[1] = "Ok"
    /\ observer = "finished"
    /\ fetcher = "finished"
    /\ ret = <<"Ok">>
    /\ before.path = PathJoin(before.dir, before.name)
    /\ model.path = HubPath(before)

\* C26: a further preload call on a handle an earlier call succeeded on,
\* with a file of the artifact still on local storage, returns Ok at once
\* by the cache-hit path: the handle is unchanged, and there is no probe,
\* fetch, observer or notification.
C26_SecondPreloadShortCircuits ==
    (calls >= 2 /\ before.preloaded
                /\ (PathJoin(before.dir, before.name) \in filesAtCall
                    \/ HubPath(before) \in filesAtCall))
    => ( /\ pl_pc = "idle"
         /\ ret = <<"Ok">>
         /\ model = before
         /\ log = <<>>
         /\ observer = "none"
         /\ fetcher = "none"
         /\ files = filesAtCall )

\* C26's case: the first call downloaded the artifact, the second returned
C26_Witness ==
    /\ calls = 2
    /\ before.preloaded
    /\ before.path = HubPath(before)
    /\ before.path # PathJoin(before.dir, before.name)
    /\ ret = <<"Ok">>
    /\ model = before
    /\ log = <<>>

\* C27: the size probe is made only when a download is due, and whatever
\* it comes back with (a size, no content length, a transport error)
\* preload goes on to start the observation, with the size or none, and to
\* spawn the fetch unit.
C27_SizeProbeBestEffort ==
    /\ Count("probe") <= 1
    /\ \A i \in 1..Len(log) :
          log[i][1] = "probe"
          => ( /\ i = 1
               /\ GenuineDownload
               /\ Len(log) >= 2
               /\ log[2] = <<"observe", GetSize(log[1][2]), TRUE>>
               /\ fetcher # "none" )
    /\ (fetcher # "none" /\ GenuineDownload) => Count("probe") = 1

PreloadResults ==
    {<<"Ok">>, <<"Err", "JoinError">>}
    \cup {<<"Err", "UnknownModel", k>> : k \in ModelKind}
    \cup {<<"Err", "API", t>> : t \in ErrTexts}

\* C29: for every endpoint and every local storage a preload call that is
\* over has returned Ok, UnknownModel, API or JoinError: it has not
\* returned NotPreloaded and has not panicked.
C29_PreloadReturnsAResult ==
    (calls > 0 /\ pl_pc = "idle") => ret \in PreloadResults

(***************************************************************************)
(* Properties of the request handlers, stated for SpecChat and SpecServe.  *)
(***************************************************************************)

\* the inference engine has been called for the request
EngineInvoked ==
    \/ pc \in {"Streaming", "Completed"}
    \/ resp \in {<<"Err", "Endpoint">>, <<"Err", "Whisper">>}

\* C12: when the configured name of the request's endpoint is empty after
\* trimming, the request fails at once, with NoSuchModel on the chat
\* endpoint and FileNotFound on the transcription endpoint; no handle is
\* built, preload is not called and the engine is not invoked.
C12_EmptyNameFailsAtOnce ==
    (pc # "Received" /\ Trim(settings.name) = <<>>)
    => ( /\ pc = "Failed"
         /\ resp = <<"Err", IF IsChat THEN "NoSuchModel" ELSE "FileNotFound", <<>>>>
         /\ model = NoHandle
         /\ calls = 0
         /\ pl_pc = "idle"
         /\ ~EngineInvoked
         /\ engine = <<>>
         /\ sse = <<>> )

\* C12's case: a transcription request while the configured name is blank
C12_Witness ==
    /\ IsTranscription
    /\ settings.name = <<" ">>
    /\ pc = "Failed"
    /\ resp = <<"Err", "FileNotFound", <<>>>>
    /\ calls = 0

\* C13: on the chat endpoint a preload call that returned an error, be it
\* UnknownModel, API or JoinError, makes the request fail with NoSuchModel
\* carrying the configured name; no event is streamed.
C13_PreloadErrorIsNoSuchModel ==
    (IsChat /\ calls > 0 /\ pl_pc = "idle" /\ pc # "Preloading" /\ ret # <<"Ok">>)
    => ( /\ ret[1] = "Err"
         /\ ret[2] \in {"UnknownModel", "API", "JoinError"}
         /\ pc = "Failed"
         /\ resp = <<"Err", "NoSuchModel", Trim(settings.name)>>
         /\ engine = <<>>
         /\ sse = <<>> )

\* C13's case: preload failed to join a unit and the request failed
C13_Witness ==
    /\ IsChat
    /\ ret = <<"Err", "JoinError">>
    /\ pc = "Failed"
    /\ resp = <<"Err", "NoSuchModel", <<"m">>>>
    /\ sse = <<>>

\* C14: a chat request is answered with an event stream when its stream
\* flag is enabled, and with one JSON body and no event otherwise.
C14_StreamFlagSelectsFraming ==
    (IsChat /\ pc \in {"Streaming", "Completed"})
    => IF req.stream = <<"Some", TRUE>>
       THEN resp = <<"Sse">>
       ELSE resp[1] = "Json" /\ sse = <<>>

\* C15: the handle of a request is a function of the endpoint and the
\* server configuration alone, whatever the request's model field holds,
\* and so is what preload returns where storage and configuration decide it.
C15_ModelFieldIgnored ==
    model # NoHandle
    => ( /\ model.kind = (IF IsChat THEN "LLM" ELSE "Whisper")
         /\ model.name = Trim(settings.name)
         /\ model.repo = Trim(settings.repo)
         /\ model.dir = (IF IsChat THEN Dir ELSE AudioDir)
         /\ (calls > 0 /\ pl_pc = "idle" /\ before.path \in filesAtCall) => ret = <<"Ok">>
         /\ (calls > 0 /\ pl_pc = "idle" /\ before.path \notin filesAtCall
                       /\ Trim(settings.repo) = <<>>)
            => ret = <<"Err", "UnknownModel", model.kind>> )

\* C15's case: the request names another model than the configured one,
\* and the configured one was preloaded
C15_Witness ==
    /\ req.model = <<"x">>
    /\ model # NoHandle
    /\ model.name = <<"m">>
    /\ calls > 0
    /\ pl_pc = "idle"
    /\ ret = <<"Ok">>

\* C18: on every path through chat_completions and create_transcription
\* preload is called at most once on the request's handle.
C18_PreloadAtMostOnce == calls <= 1

\* C30: in both handlers the engine is invoked only after preload on the
\* request's handle has returned Ok: the handle is then preloaded and
\* file_path on it succeeds; a request that has not passed through
\* Preloaded has not reached the engine.
C30_EngineOnlyAfterPreload ==
    /\ (pc = "Preloaded" \/ EngineInvoked)
       => ( /\ calls >= 1
            /\ pl_pc = "idle"
            /\ ret = <<"Ok">>
            /\ model # NoHandle
            /\ model.preloaded
            /\ FilePath(model) = <<"Ok", model.path>>
            /\ model.path \in files )
    /\ pc \in {"Received", "ModelResolved", "Preloading", "PreloadedOnce", "PreloadingAgain"}
       => (~EngineInvoked /\ engine = <<>> /\ sse = <<>>)

\* C30's case: a chat request whose artifact was downloaded is streaming
C30_Witness ==
    /\ IsChat
    /\ pc = "Streaming"
    /\ engine # <<>>
    /\ Count("fetch") = 1
    /\ model.preloaded
    /\ model.path = HubPath(model)

\* C31: chat streaming frames one event per chunk, in order: at every
\* moment the events sent are exactly the chunks the chat completion stream
\* has yielded, one event per chunk with that chunk as its content delta
\* and no finish reason; one step sends at most one event, and only
\* together with a new chunk; when the chunk stream has ended nothing more
\* is sent, so no terminal marker follows the last chunk's event.
C31_OneEventPerChunk ==
    [][ /\ Len(sse') = Len(engine')
        /\ \A i \in 1..Len(sse') :
              /\ sse'[i].content = engine'[i]
              /\ sse'[i].finish_reason = "None"
        /\ (sse' # sse) => (/\ Len(engine') = Len(engine) + 1
                            /\ SubSeq(sse', 1, Len(sse)) = sse
                            /\ SubSeq(engine', 1, Len(engine)) = engine)
        /\ (pc = "Completed" \/ pc' = "Completed") => sse' = sse ]_vars

\* C31's case: a stream of two different chunks has ended
C31_Witness ==
    /\ IsChat
    /\ pc = "Completed"
    /\ Len(engine) = 2
    /\ engine[1] # engine[2]
    /\ Contents(sse) = engine

(***************************************************************************)
(* Properties of the filter under reordered stop words, stated for         *)
(* SpecOrder.                                                              *)
(***************************************************************************)
\* the stop words `words` in every order
Orderings(words) ==
    {[i \in 1..Len(words) |-> words[p[i]]] :
        p \in {q \in [1..Len(words) -> 1..Len(words)] :
                  \A i, j \in 1..Len(words) : i # j => q[i] # q[j]}}

\* C32: the emitted chunks do not depend on the order of the stop words:
\* what this filter has emitted from the chunks it consumed is what a
\* filter with the same stop words in any other order emits from the same
\* chunks.
C32_StopWordOrderIrrelevant ==
    \A words \in Orderings(stop_words) : FilterRun(words, <<>>, consumed) = out

\* C32's case: after a chunk was emitted the filter withholds a buffer at
\* which another order of its stop words ends the stream
C32_Witness ==
    /\ out # <<>>
    /\ ~ended
    /\ working_buf # <<>>
    /\ ScanStopWords(working_buf, stop_words, 1) = "stall"
    /\ \E words \in Orderings(stop_words) : ScanStopWords(working_buf, words, 1) = "stop"

\* the chunks the latest call of poll_next pulled from `inner`
PulledNow == SubSeq(consumed', Len(consumed) + 1, Len(consumed'))

\* C33: the output depends on the chunk sequence alone, not on its timing:
\* after every poll the emitted chunks are those of an uninterrupted run
\* over the chunks consumed so far, however many Pending results lay
\* between them; the filter returns Pending exactly when `inner` answered
\* Pending; and a poll that returns Pending emits nothing, ends nothing and
\* keeps the pending text: the buffer is what it was, followed by the
\* chunks the call withheld before `inner` was not ready.
C33_OutputIgnoresTiming ==
    [][ /\ out' = FilterRun(stop_words', <<>>, consumed')
        /\ (last' = <<"Pending">>) <=> (polled' = "Pending")
        /\ (last' = <<"Pending">>)
              => /\ working_buf' = working_buf \o Concat(PulledNow)
                 /\ out' = out
                 /\ ended' = ended
                 /\ is_fused' = is_fused ]_vars

\* C33's case: after a chunk was emitted the filter holds pending text and
\* has returned Pending because `inner` was not ready
C33_Witness ==
    /\ out # <<>>
    /\ ~ended
    /\ working_buf # <<>>
    /\ last = <<"Pending">>
    /\ polled = "Pending"

(***************************************************************************)
(* Termination of the filter, stated for SpecLive.                         *)
(***************************************************************************)
\* C34: polled repeatedly over a finite upstream that delivers its chunks
\* and then its end, the filter eventually signals end-of-stream; until
\* then every chunk it pulled is counted once, in what it emitted or in
\* what it withholds.
C34_EventuallyEnds ==
    /\ <>ended
    /\ [](~ended => Concat(out) \o working_buf = Concat(consumed))

\* C34's case: the filter has consumed the whole upstream, withholding or
\* emitting on the way, and has signalled its end
C34_Witness ==
    /\ ended
    /\ is_fused
    /\ Len(consumed) = MaxLiveChunks
    /\ out # <<>>

(***************************************************************************)
(* Properties of concurrent requests, stated for SpecShared.               *)
(***************************************************************************)
\* the fetch of request i is between its download-start and its
\* download-end
InFlight(i) == units[i].download /\ units[i].at \in {"get", "end_progress", "end_flag"}

\* where request i wrote its download-start
StartedAt(i) == CHOOSE n \in 1..Len(sinkLog) : sinkLog[n][1] = "download_true" /\ sinkLog[n][2] = i

\* the writes of the flag of kind k, in order
FlagWrites(k) == SelectSeq(sinkLog, LAMBDA w : w[3] = k)

\* C35 as stated: with two requests on the same endpoint kind, each on a
\* genuine download, the flag of that kind is true whenever one of the two
\* fetches is in flight.
C35_Original ==
    \A i, j \in Requests :
        (/\ i # j
         /\ units[i].ep = units[j].ep
         /\ units[i].download
         /\ units[j].download
         /\ InFlight(i))
        => sink[units[i].ep].downloading

\* C35 amended: the flag of a kind holds the value written last for it,
\* by whichever request; so it is true while a fetch is in flight as long
\* as no request of that kind has reported the end of its download since
\* that fetch reported its start.
C35_FlagIsLastWrite ==
    /\ \A k \in SinkKinds :
          sink[k].downloading =
              (FlagWrites(k) # <<>> /\ FlagWrites(k)[Len(FlagWrites(k))][1] = "download_true")
    /\ \A i \in Requests :
          (/\ InFlight(i)
           /\ ~\E n \in (StartedAt(i) + 1)..Len(sinkLog) :
                  sinkLog[n][1] = "download_false" /\ sinkLog[n][3] = units[i].ep)
          => sink[units[i].ep].downloading

\* C35's case: two fetches of the same kind were in flight together, one
\* has reported its end and the other is still in flight
C35_Witness ==
    \E i, j \in Requests :
        /\ i # j
        /\ units[i].ep = units[j].ep
        /\ units[i].download
        /\ units[j].download
        /\ InFlight(i)
        /\ units[j].at = "finished"
        /\ StartedAt(i) < Len(sinkLog)
        /\ sinkLog[Len(sinkLog)] = <<"download_false", j, units[j].ep>>
        /\ ~sink[units[i].ep].downloading

====
